---- MODULE Spec2Model ----
(***************************************************************************)
(* A model of version_flow/core.py: the Version class (parse and           *)
(* is_greater_than) and the VersionFlow orchestrator                       *)
(* (check_internet_connection, check_for_updates_in_github,                *)
(* update_from_github, __enter__).                                         *)
(*                                                                         *)
(* A Python str is a sequence of one-character strings, so that parsing    *)
(* and formatting are computed character by character.  None is the        *)
(* record NoneStr for an optional str, and the string "None" for an        *)
(* optional name (an exception class, a hook).                             *)
(***************************************************************************)
EXTENDS Integers, Sequences, FiniteSets, TLC

VARIABLES internet_status, update_available, call

vars == <<internet_status, update_available, call>>

(***************************************************************************)
(* Bounds of the model.                                                    *)
(***************************************************************************)
MaxLen == 5        \* longest version string given to Version.parse
MaxComp == 2       \* largest component of a valid version triple
MaxArgs == 2       \* most positional hook arguments (*update_method_args)

(***************************************************************************)
(* Python's str and int built-ins, as far as core.py uses them.            *)
(***************************************************************************)
Digits == <<"0", "1", "2", "3", "4", "5", "6", "7", "8", "9">>

IsDigit(c) == \E i \in 1..10 : Digits[i] = c

DigitVal(c) == (CHOOSE i \in 1..10 : Digits[i] = c) - 1

\* str.startswith(prefix) for a one-character prefix
startswith(s, c) == Len(s) > 0 /\ s[1] = c

\* s[1:]
drop_first(s) == SubSeq(s, 2, Len(s))

\* str.split(sep): always at least one part, empty parts kept
RECURSIVE split(_, _)
split(s, sep) ==
    IF \E i \in 1..Len(s) : s[i] = sep
    THEN LET i == CHOOSE k \in 1..Len(s) :
                      s[k] = sep /\ \A j \in 1..(k - 1) : s[j] # sep
         IN  <<SubSeq(s, 1, i - 1)>> \o split(SubSeq(s, i + 1, Len(s)), sep)
    ELSE <<s>>

RECURSIVE digits_value(_)
digits_value(s) ==
    IF s = <<>> THEN 0
    ELSE 10 * digits_value(SubSeq(s, 1, Len(s) - 1)) + DigitVal(s[Len(s)])

\* the digits of an int literal, after its optional sign
int_body(s) == IF startswith(s, "-") THEN drop_first(s) ELSE s

\* whether int(s) returns: an optional '-' and then one or more digits
\* (over the characters modelled; otherwise int raises ValueError)
int_ok(s) ==
    /\ int_body(s) # <<>>
    /\ \A i \in 1..Len(int_body(s)) : IsDigit(int_body(s)[i])

\* int(s), where int_ok(s)
int(s) ==
    IF startswith(s, "-") THEN 0 - digits_value(int_body(s))
    ELSE digits_value(s)

\* str(n) for an int n, as '{}'.format(n) writes it
RECURSIVE nat_str(_)
nat_str(n) ==
    IF n < 10 THEN <<Digits[n + 1]>>
    ELSE nat_str(n \div 10) \o <<Digits[(n % 10) + 1]>>

str(n) == IF n < 0 THEN <<"-">> \o nat_str(0 - n) ELSE nat_str(n)

\* 'v{}.{}.{}'.format(t[0], t[1], t[2])
format(t) == <<"v">> \o str(t[1]) \o <<".">> \o str(t[2]) \o <<".">> \o str(t[3])

\* Python's ordering of 3-tuples of ints: a > b
tuple_gt(a, b) ==
    \/ a[1] > b[1]
    \/ a[1] = b[1] /\ a[2] > b[2]
    \/ a[1] = b[1] /\ a[2] = b[2] /\ a[3] > b[3]

\* max([a, b]): the first maximal item
max(a, b) == IF tuple_gt(b, a) THEN b ELSE a

(***************************************************************************)
(* class Version                                                           *)
(***************************************************************************)
\* Version.parse: [raised, value]; int() raises ValueError
parse(version) ==
    LET v == IF startswith(version, "v") THEN drop_first(version) ELSE version
        parts == split(v, ".")
        used == SubSeq(parts, 1, IF Len(parts) > 3 THEN 3 ELSE Len(parts))
    IN  IF \E i \in 1..Len(used) : ~int_ok(used[i])
        THEN [raised |-> "ValueError", value |-> <<0, 0, 0>>]
        ELSE [raised |-> "None",
              value |-> << int(parts[1]),
                           IF Len(parts) > 1 THEN int(parts[2]) ELSE 0,
                           IF Len(parts) > 2 THEN int(parts[3]) ELSE 0 >>]

\* Version.__init__: [raised, version], version being self.version
Version(version) ==
    LET parsed == parse(version)
    IN  [raised |-> parsed.raised,
         version |-> IF parsed.raised = "None" THEN format(parsed.value) ELSE <<>>]

\* Version.is_greater_than on self.version: [raised, value]
is_greater_than(self_version, version_to_check) ==
    LET p1 == parse(self_version)
        p2 == parse(version_to_check)
    IN  IF p1.raised # "None" \/ p2.raised # "None"
        THEN [raised |-> "ValueError", value |-> FALSE]
        ELSE LET latest == max(p1.value, p2.value)
                 latest_in_string == format(latest)
             IN  [raised |-> "None", value |-> latest_in_string = self_version]

(***************************************************************************)
(* Values of the orchestrator.                                             *)
(***************************************************************************)
NoneStr == [none |-> TRUE, str |-> <<>>]

Some(s) == [none |-> FALSE, str |-> s]

\* an optional list[str]
NoneList == [none |-> TRUE, list |-> <<>>]

SomeList(l) == [none |-> FALSE, list |-> l]

Latest == <<"l", "a", "t", "e", "s", "t">>

\* os.getcwd()
getcwd == <<"c", "w", "d">>

\* what requests.get gives: a response with a status code and a body, or a
\* transport exception.  A body is json or not, holds 'tag_name' or not.
Response(status, json, has_tag, tag) ==
    [exception |-> "None", status_code |-> status,
     json |-> json, has_tag |-> has_tag, tag_name |-> tag]

TransportFailure(e) ==
    [exception |-> e, status_code |-> 0,
     json |-> FALSE, has_tag |-> FALSE, tag_name |-> <<>>]

\* Response.raise_for_status raises HTTPError for a 4xx or 5xx status
raise_for_status(status_code) == 400 <= status_code /\ status_code < 600

(***************************************************************************)
(* class VersionFlow                                                       *)
(***************************************************************************)
\* check_internet_connection's try block, on what requests.get gave:
\* [raised, internet_status]
check_internet_connection(status_now, r) ==
    IF r.exception = "None"
    THEN [raised |-> "None", internet_status |-> (r.status_code = 200)]
    ELSE IF r.exception \in {"ConnectionError", "ConnectTimeout"}
    THEN [raised |-> "None", internet_status |-> status_now]
    ELSE [raised |-> r.exception, internet_status |-> status_now]

\* check_headers without the branch for a token given to a repository not
\* marked private: no warning, no headers
check_headers_no_public_token(private, token) ==
    IF private /\ ~token.none
    THEN [raised |-> "None", auth |-> TRUE, warnings |-> <<>>]
    ELSE IF private /\ token.none
    THEN [raised |-> "GitHubTokenErr", auth |-> FALSE, warnings |-> <<>>]
    ELSE [raised |-> "None", auth |-> FALSE, warnings |-> <<>>]

\* the headers of check_for_updates_in_github: [raised, auth, warnings],
\* auth being whether headers (with Authorization) are passed to requests.get
check_headers(private, token) ==
    IF private /\ ~token.none
    THEN [raised |-> "None", auth |-> TRUE, warnings |-> <<>>]
    ELSE IF private /\ token.none
    THEN [raised |-> "GitHubTokenErr", auth |-> FALSE, warnings |-> <<>>]
    ELSE IF ~token.none /\ ~private
    THEN [raised |-> "None", auth |-> TRUE,
          warnings |-> <<"PrivateRepositoryWarning">>]
    ELSE [raised |-> "None", auth |-> FALSE, warnings |-> <<>>]

\* the headers of update_from_github
update_headers(private, token) ==
    IF private /\ ~token.none
    THEN [raised |-> "None", auth |-> TRUE, warnings |-> <<>>]
    ELSE IF private /\ token.none
    THEN [raised |-> "GitHubTokenErr", auth |-> FALSE, warnings |-> <<>>]
    ELSE IF ~token.none /\ ~private
    THEN [raised |-> "None", auth |-> TRUE,
          warnings |-> <<"PrivateRepositoryWarning">>]
    ELSE [raised |-> "None", auth |-> FALSE, warnings |-> <<>>]

\* what a call of update_from_github did: the exception raised, the
\* warnings, the requests issued, the files downloaded, the hook calls
UpdateOut(raised, warnings, requests) ==
    [raised |-> raised, warnings |-> warnings, requests |-> requests,
     downloads |-> <<>>, hook_calls |-> <<>>]

\* update_from_github, on its parameters as bound and on what requests.get
\* gives.  The body ends after raise_for_status: nothing is downloaded and
\* update_method is not called.
update_from_github(b, r) ==
    LET w1 == IF b.download_directory.none
              THEN <<"DownloadDirectoryWarning">> ELSE <<>>
        h == update_headers(b.private, b.if_private_then_api_token)
        req == <<[selector |-> b.target_version, auth |-> h.auth]>>
    IN  IF h.raised # "None"
        THEN UpdateOut(h.raised, w1, <<>>)
        ELSE IF r.exception # "None"
        THEN UpdateOut(r.exception, w1 \o h.warnings, req)
        ELSE IF raise_for_status(r.status_code)
        THEN UpdateOut("ServerResponseErr", w1 \o h.warnings, req)
        ELSE UpdateOut("None", w1 \o h.warnings, req)

\* the binding of the call at the end of check_for_updates_in_github:
\* four positional arguments, then *update_method_args, then the keywords
\* private, if_private_then_api_token and update_method.  The starred
\* arguments fill the parameters after download_directory: target_version,
\* private, ...; a parameter filled twice is a TypeError.
bind_update_call(files, directory, private, token, update_method, args) ==
    [raised |-> IF Len(args) >= 2 THEN "TypeError" ELSE "None",
     bound |-> [files_to_download |-> files,
                download_directory |-> directory,
                target_version |-> IF Len(args) >= 1 THEN args[1] ELSE Latest,
                private |-> private,
                if_private_then_api_token |-> token,
                update_method |-> update_method,
                update_method_args |-> <<>>]]

\* what a call of check_for_updates_in_github did: tag_lookup is whether
\* release_['tag_name'] was evaluated, compared whether is_greater_than was
\* called, flag_set whether update_available was assigned True
CheckOut(raised, returned, warnings, requests, tag_lookup, compared, flag_set, delegated, downloads, hook_calls) ==
    [raised |-> raised, returned |-> returned, warnings |-> warnings,
     requests |-> requests, tag_lookup |-> tag_lookup,
     compared |-> compared, flag_set |-> flag_set, delegated |-> delegated,
     downloads |-> downloads, hook_calls |-> hook_calls]

\* the update branch of check_for_updates_in_github (update is true)
check_update_branch(p, w, req, r2) ==
    IF p.files_to_download.none
    THEN CheckOut("FilesNotSetErr", NoneStr, w, req, TRUE, TRUE, TRUE,
                  <<>>, <<>>, <<>>)
    ELSE LET w2 == IF p.download_directory.none
                   THEN w \o <<"DownloadDirectoryWarning">> ELSE w
             dir == IF p.download_directory.none
                    THEN Some(getcwd) ELSE p.download_directory
             c == bind_update_call(p.files_to_download, dir, p.private,
                                   p.if_private_then_api_token,
                                   p.update_method, p.update_method_args)
             u == update_from_github(c.bound, r2)
         IN  IF c.raised # "None"
             THEN CheckOut(c.raised, NoneStr, w2, req, TRUE, TRUE, TRUE,
                           <<>>, <<>>, <<>>)
             ELSE CheckOut(u.raised, NoneStr, w2 \o u.warnings,
                           req \o u.requests, TRUE, TRUE, TRUE,
                           <<c.bound>>, u.downloads, u.hook_calls)

\* the comparison of check_for_updates_in_github written the other way
\* round, current version against tag
current_is_greater_than_tag(release_tag, current_version) ==
    LET v == Version(current_version)
    IN  IF Version(release_tag).raised # "None" \/ v.raised # "None"
        THEN [raised |-> "ValueError", constructed |-> FALSE, value |-> FALSE]
        ELSE [raised |-> "None", constructed |-> TRUE,
              value |-> is_greater_than(v.version, release_tag).value]

\* Version(release_tag).is_greater_than(current_version): [raised,
\* constructed, value], constructed being whether Version(release_tag)
\* returned, so that is_greater_than was called
tag_is_greater_than(release_tag, current_version) ==
    LET v == Version(release_tag)
    IN  IF v.raised # "None"
        THEN [raised |-> v.raised, constructed |-> FALSE, value |-> FALSE]
        ELSE [raised |-> is_greater_than(v.version, current_version).raised,
              constructed |-> TRUE,
              value |-> is_greater_than(v.version, current_version).value]

\* check_for_updates_in_github, on its parameters p and on what the two
\* requests.get calls give (r1 its own, r2 the one of update_from_github)
check_for_updates_in_github(p, r1, r2) ==
    LET h == check_headers(p.private, p.if_private_then_api_token)
        req == <<[selector |-> p.release, auth |-> h.auth]>>
        w == h.warnings
        Fail(e, lookup, compared) ==
            CheckOut(e, NoneStr, w, req, lookup, compared, FALSE,
                     <<>>, <<>>, <<>>)
    IN  IF h.raised # "None"
        THEN CheckOut(h.raised, NoneStr, <<>>, <<>>, FALSE, FALSE, FALSE,
                      <<>>, <<>>, <<>>)
        ELSE IF r1.exception # "None" THEN Fail(r1.exception, FALSE, FALSE)
        ELSE IF raise_for_status(r1.status_code)
        THEN Fail("ServerResponseErr", FALSE, FALSE)
        ELSE IF ~r1.json THEN Fail("JSONDecodeError", FALSE, FALSE)
        ELSE IF ~r1.has_tag THEN Fail("ReleaseTagErr", TRUE, FALSE)
        ELSE LET g == tag_is_greater_than(r1.tag_name, p.current_version)
             IN  IF g.raised # "None" THEN Fail(g.raised, TRUE, g.constructed)
                 ELSE IF ~g.value
                 THEN CheckOut("None", NoneStr, w, req, TRUE, TRUE, FALSE,
                               <<>>, <<>>, <<>>)
                 ELSE IF ~p.update
                 THEN CheckOut("None", Some(r1.tag_name), w, req, TRUE, TRUE,
                               TRUE, <<>>, <<>>, <<>>)
                 ELSE check_update_branch(p, w, req, r2)

(***************************************************************************)
(* Spec: one VersionFlow instance and its caller.  call is the call the    *)
(* caller made last, with its arguments, what the network gave and what    *)
(* the call did; "idle" before the first call and between calls.           *)
(***************************************************************************)
Idle == [op |-> "idle"]

CurrentVersions ==
    { <<"1", ".", "0", ".", "0">>, <<"v", "1", ".", "1">>, <<"x">> }

Tags ==
    { <<"1", ".", "0", ".", "0">>, <<"1", ".", "1", ".", "0">>,
      <<"0", ".", "9">>, <<"a">> }

Releases == { Latest, <<"v", "1">> }

Tokens == { NoneStr, Some(<<"t">>) }

FileLists == { NoneList, SomeList(<<>>), SomeList(<<"f">>) }

Directories == { NoneStr, Some(<<"d">>) }

Hooks == { "None", "hook" }

\* *update_method_args: <<>>, <<"a1">>, <<"a1", "a2">>, ...
ArgLists == { [i \in 1..k |-> <<"a", Digits[i + 1]>>] : k \in 0..MaxArgs }

TransportFailures ==
    { TransportFailure(e) : e \in {"ConnectionError", "ConnectTimeout", "ReadTimeout"} }

\* what the probed server may answer
ProbeResponses ==
    { Response(st, FALSE, FALSE, <<>>) : st \in {200, 204, 404} }
    \cup TransportFailures

\* what the release endpoint may answer to check_for_updates_in_github
ReleaseResponses ==
    { Response(200, TRUE, TRUE, t) : t \in Tags }
    \cup { Response(200, TRUE, FALSE, <<>>), Response(200, FALSE, FALSE, <<>>),
           Response(304, FALSE, FALSE, <<>>),
           Response(304, TRUE, TRUE, <<"v", "1", ".", "1", ".", "0">>),
           Response(404, TRUE, FALSE, <<>>), Response(503, FALSE, FALSE, <<>>),
           TransportFailure("ConnectionError") }

\* what it may answer to update_from_github, which reads only the status
UpdateResponses ==
    { Response(st, TRUE, TRUE, <<"v", "1", ".", "1", ".", "0">>) :
          st \in {200, 304, 404, 503} }
    \cup { TransportFailure("ConnectionError") }

Init ==
    /\ internet_status = FALSE
    /\ update_available = FALSE
    /\ call = Idle

\* vf.check_internet_connection()
CheckInternetConnection ==
    /\ call.op = "idle"
    /\ \E r \in ProbeResponses :
           LET out == check_internet_connection(internet_status, r)
           IN  /\ internet_status' = out.internet_status
               /\ call' = [op |-> "check_internet_connection", before |-> internet_status,
                           r |-> r, raised |-> out.raised]
    /\ UNCHANGED update_available

\* with VersionFlow() as vf: __enter__ probes and returns self
Enter ==
    /\ call.op = "idle"
    /\ \E r \in ProbeResponses :
           LET out == check_internet_connection(internet_status, r)
           IN  /\ internet_status' = out.internet_status
               /\ call' = [op |-> "__enter__", before |-> internet_status,
                           r |-> r, raised |-> out.raised]
    /\ UNCHANGED update_available

\* the answers to the request of update_from_github: there is one only
\* when check_for_updates_in_github gets as far as that request
SecondResponses(p, r1) ==
    IF Len(check_for_updates_in_github(p, r1, TransportFailure("ConnectionError")).requests) = 2
    THEN UpdateResponses
    ELSE { TransportFailure("ConnectionError") }

\* vf.check_for_updates_in_github(...)
CheckForUpdatesInGithub ==
    /\ call.op = "idle"
    /\ \E cur \in CurrentVersions, rel \in Releases, private \in BOOLEAN,
          token \in Tokens, update \in BOOLEAN, files \in FileLists,
          dir \in Directories, hook \in Hooks, args \in ArgLists,
          r1 \in ReleaseResponses :
           LET p == [current_version |-> cur, release |-> rel,
                     private |-> private, if_private_then_api_token |-> token,
                     update |-> update, files_to_download |-> files,
                     download_directory |-> dir, update_method |-> hook,
                     update_method_args |-> args]
           IN  \E r2 \in SecondResponses(p, r1) :
                   LET out == check_for_updates_in_github(p, r1, r2)
                   IN  /\ update_available' =
                              (IF out.flag_set THEN TRUE ELSE update_available)
                       /\ call' = [op |-> "check_for_updates_in_github",
                                   before |-> update_available, p |-> p,
                                   responses |-> IF Len(out.requests) = 2
                                                 THEN <<r1, r2>>
                                                 ELSE IF Len(out.requests) = 1
                                                 THEN <<r1>>
                                                 ELSE <<>>,
                                   out |-> out]
    /\ UNCHANGED internet_status

\* vf.update_from_github(...), called directly: every parameter is bound as
\* the caller wrote it
UpdateFromGithub ==
    /\ call.op = "idle"
    /\ \E files \in FileLists \ {NoneList}, dir \in Directories,
          target \in Releases, private \in BOOLEAN, token \in Tokens,
          hook \in Hooks, args \in ArgLists, r \in UpdateResponses :
           LET b == [files_to_download |-> files, download_directory |-> dir,
                     target_version |-> target, private |-> private,
                     if_private_then_api_token |-> token,
                     update_method |-> hook, update_method_args |-> args]
               out == update_from_github(b, r)
           IN  call' = [op |-> "update_from_github",
                        before |-> update_available, p |-> b,
                        responses |-> IF Len(out.requests) = 1 THEN <<r>> ELSE <<>>,
                        out |-> out]
    /\ UNCHANGED <<internet_status, update_available>>

\* the caller has the result, or has handled the exception, and goes on
CallerContinues ==
    /\ call.op # "idle"
    /\ call' = Idle
    /\ UNCHANGED <<internet_status, update_available>>

Next ==
    \/ CheckInternetConnection
    \/ Enter
    \/ CheckForUpdatesInGithub
    \/ UpdateFromGithub
    \/ CallerContinues

Spec == Init /\ [][Next]_vars

(***************************************************************************)
(* The properties of the orchestrator, on the call the caller made last.   *)
(***************************************************************************)
IsCheck == call.op = "check_for_updates_in_github"

IsUpdate == call.op = "update_from_github"

IsProbe == call.op \in {"check_internet_connection", "__enter__"}

\* the release endpoint answered the call's own request with a 2xx status
\* and a release that has a tag
GotTag ==
    /\ Len(call.responses) >= 1
    /\ call.responses[1].exception = "None"
    /\ call.responses[1].status_code \in 200..299
    /\ call.responses[1].json
    /\ call.responses[1].has_tag

RemoteTag == call.responses[1].tag_name

\* a and b are versions and a is strictly greater than b
StrictlyGreater(a, b) ==
    /\ parse(a).raised = "None"
    /\ parse(b).raised = "None"
    /\ tuple_gt(parse(a).value, parse(b).value)

BothVersions(a, b) == parse(a).raised = "None" /\ parse(b).raised = "None"

Count(seq, x) == Cardinality({i \in 1..Len(seq) : seq[i] = x})

\* C2: a success response whose tag is strictly greater than current_version,
\* with update false, makes check_for_updates_in_github return the tag as the
\* remote wrote it and leaves update_available true; a current_version
\* strictly greater than the tag (the reverse direction) returns None.
C2_ReturnsRawTag ==
    IsCheck /\ GotTag =>
        /\ (StrictlyGreater(RemoteTag, call.p.current_version) /\ ~call.p.update) =>
               /\ call.out.raised = "None"
               /\ call.out.returned = Some(RemoteTag)
               /\ update_available = TRUE
        /\ StrictlyGreater(call.p.current_version, RemoteTag) =>
               /\ call.out.raised = "None"
               /\ call.out.returned = NoneStr

C2_Witness ==
    /\ IsCheck /\ GotTag
    /\ StrictlyGreater(RemoteTag, call.p.current_version)
    /\ ~call.p.update
    /\ RemoteTag # Version(RemoteTag).version
    /\ call.out.returned = Some(RemoteTag)
    /\ call.before = FALSE
    /\ update_available = TRUE

\* C3: a check_for_updates_in_github call that completes with a tag not
\* strictly greater than current_version (equal included) returns None and
\* leaves update_available false, whatever calls came before.
C3_NotGreaterClearsFlag ==
    (/\ IsCheck /\ GotTag
     /\ call.out.raised = "None"
     /\ BothVersions(RemoteTag, call.p.current_version)
     /\ ~StrictlyGreater(RemoteTag, call.p.current_version)) =>
        /\ call.out.returned = NoneStr
        /\ update_available = FALSE

\* C4: in check_for_updates_in_github and update_from_github, the call fails
\* with GitHubTokenErr exactly when private is true and there is no token,
\* and then issues no request; otherwise it issues its request, every
\* request carries the Authorization header exactly when a token was given,
\* and the credential advisory is emitted exactly when private is false and
\* a token was given.
C4_CredentialContract ==
    IsCheck \/ IsUpdate =>
        LET private == call.p.private
            supplied == ~call.p.if_private_then_api_token.none
        IN  /\ call.out.raised = "GitHubTokenErr" <=> (private /\ ~supplied)
            /\ (private /\ ~supplied) => call.out.requests = <<>>
            /\ ~(private /\ ~supplied) =>
                   /\ Len(call.out.requests) >= 1
                   /\ \A i \in 1..Len(call.out.requests) :
                          call.out.requests[i].auth <=> supplied
            /\ Count(call.out.warnings, "PrivateRepositoryWarning") > 0
                   <=> (~private /\ supplied)

C4_Witness ==
    /\ IsCheck
    /\ ~call.p.private
    /\ ~call.p.if_private_then_api_token.none
    /\ Count(call.out.warnings, "PrivateRepositoryWarning") > 0
    /\ Len(call.out.requests) = 2
    /\ call.out.requests[1].auth /\ call.out.requests[2].auth
    /\ call.out.raised = "None"

\* C5: a non-success status from the metadata endpoint makes
\* check_for_updates_in_github fail with ServerResponseErr, with no tag
\* lookup, no comparison, no download step, and update_available as before.
C5_NonSuccessStatus ==
    (/\ IsCheck
     /\ Len(call.responses) >= 1
     /\ call.responses[1].exception = "None"
     /\ call.responses[1].status_code \notin 200..299) =>
        /\ call.out.raised = "ServerResponseErr"
        /\ ~call.out.tag_lookup
        /\ ~call.out.compared
        /\ call.out.delegated = <<>>
        /\ update_available = call.before

\* C6: with a strictly greater tag and update true, a file list that is None
\* or empty makes the call fail with FilesNotSetErr before any download
\* attempt: update_from_github is not invoked, no second request is issued.
C6_NoFilesFails ==
    (/\ IsCheck /\ GotTag
     /\ StrictlyGreater(RemoteTag, call.p.current_version)
     /\ call.p.update
     /\ (call.p.files_to_download.none \/ call.p.files_to_download.list = <<>>)) =>
        /\ call.out.raised = "FilesNotSetErr"
        /\ call.out.delegated = <<>>
        /\ Len(call.out.requests) = 1

\* C7: with a strictly greater tag, update true and a file list, the call
\* invokes update_from_github once with the same private flag, token, file
\* list and destination (the working directory, with one advisory, when none
\* was given), and with the caller's hook and all of its arguments as the
\* hook and hook arguments, however many there are, and no binding error.
C7_ForwardsEverything ==
    (/\ IsCheck /\ GotTag
     /\ StrictlyGreater(RemoteTag, call.p.current_version)
     /\ call.p.update
     /\ ~call.p.files_to_download.none) =>
        /\ call.out.raised # "TypeError"
        /\ Len(call.out.delegated) = 1
        /\ LET b == call.out.delegated[1]
           IN  /\ b.private = call.p.private
               /\ b.if_private_then_api_token = call.p.if_private_then_api_token
               /\ b.files_to_download = call.p.files_to_download
               /\ b.download_directory =
                      (IF call.p.download_directory.none
                       THEN Some(getcwd) ELSE call.p.download_directory)
               /\ b.update_method = call.p.update_method
               /\ b.update_method_args = call.p.update_method_args
        /\ call.p.download_directory.none =>
               Count(call.out.warnings, "DownloadDirectoryWarning") = 1

\* C8: an update_from_github call given a hook, whose metadata request
\* succeeds, has invoked the hook once with the given arguments when it
\* completes; a call that fails with GitHubTokenErr or ServerResponseErr has
\* not invoked it.
C8_HookInvokedOnce ==
    IsUpdate =>
        /\ (/\ call.p.update_method # "None"
            /\ Len(call.responses) = 1
            /\ call.responses[1].exception = "None"
            /\ call.responses[1].status_code \in 200..299) =>
               call.out.hook_calls = <<call.p.update_method_args>>
        /\ call.out.raised \in {"GitHubTokenErr", "ServerResponseErr"} =>
               call.out.hook_calls = <<>>

\* C9: a probe that times out or fails at the transport level raises nothing
\* and leaves internet_status false, even after an earlier probe made it
\* true; internet_status is true only when the last probe received 200.
C9_ProbeFailureUnreachable ==
    IsProbe =>
        /\ call.r.exception # "None" =>
               /\ call.raised = "None"
               /\ internet_status = FALSE
        /\ internet_status = TRUE =>
               /\ call.r.exception = "None"
               /\ call.r.status_code = 200

(***************************************************************************)
(* Inputs of the Version specifications.                                   *)
(***************************************************************************)
Alphabet == {"0", "1", "v", ".", "-", "a"}

\* every str over Alphabet of at most n characters
Strings(n) == UNION {[1..k -> Alphabet] : k \in 0..n}

Triples == (0..MaxComp) \X (0..MaxComp) \X (0..MaxComp)

\* the ways of writing a valid triple: "vX.Y.Z", "X.Y.Z", and the short
\* forms "X.Y" (patch 0) and "X" (minor and patch 0), with and without "v"
Writings(t) ==
    LET full == format(t)
        xy == <<"v">> \o str(t[1]) \o <<".">> \o str(t[2])
        x == <<"v">> \o str(t[1])
    IN  {full, drop_first(full)}
        \cup (IF t[3] = 0 THEN {xy, drop_first(xy)} ELSE {})
        \cup (IF t[2] = 0 /\ t[3] = 0 THEN {x, drop_first(x)} ELSE {})

ValidVersions == UNION {Writings(t) : t \in Triples}

(***************************************************************************)
(* SpecParse: Version.parse applied to every bounded str.                  *)
(***************************************************************************)
InitParse ==
    /\ internet_status = FALSE
    /\ update_available = FALSE
    /\ \E s \in Strings(MaxLen) : call = [op |-> "parse_input", version |-> s]

CallParse ==
    /\ call.op = "parse_input"
    /\ call' = [op |-> "parse", version |-> call.version,
                raised |-> parse(call.version).raised,
                value |-> parse(call.version).value]
    /\ UNCHANGED <<internet_status, update_available>>

NextParse == CallParse

SpecParse == InitParse /\ [][NextParse]_vars

(***************************************************************************)
(* SpecCmp: Version(a).is_greater_than(b) for every pair of valid          *)
(* versions.                                                               *)
(***************************************************************************)
InitCmp ==
    /\ internet_status = FALSE
    /\ update_available = FALSE
    /\ \E a \in ValidVersions, b \in ValidVersions :
           call = [op |-> "cmp_input", a |-> a, b |-> b]

\* Version(a)
CallVersion ==
    /\ call.op = "cmp_input"
    /\ call' = [op |-> "Version", a |-> call.a, b |-> call.b,
                raised |-> Version(call.a).raised,
                version |-> Version(call.a).version]
    /\ UNCHANGED <<internet_status, update_available>>

\* .is_greater_than(b) on the object constructed
CallIsGreaterThan ==
    /\ call.op = "Version"
    /\ call.raised = "None"
    /\ call' = [op |-> "is_greater_than", a |-> call.a, b |-> call.b,
                version |-> call.version,
                raised |-> is_greater_than(call.version, call.b).raised,
                value |-> is_greater_than(call.version, call.b).value]
    /\ UNCHANGED <<internet_status, update_available>>

NextCmp == CallVersion \/ CallIsGreaterThan

SpecCmp == InitCmp /\ [][NextCmp]_vars

\* C1: for valid versions a and b, Version(a).is_greater_than(b) is true
\* exactly when parse(a) is strictly greater than parse(b) as a tuple; it is
\* false when the two are equal.
C1_StrictOrder ==
    call.op = "is_greater_than" =>
        /\ call.raised = "None"
        /\ call.value = tuple_gt(parse(call.a).value, parse(call.b).value)

\* C10: parse strips one leading 'v', splits on '.', fails when a present
\* segment is not a number (one or more digits), and otherwise returns the
\* segments' values, absent ones 0, every component non-negative.
IsNum(seg) == seg # <<>> /\ \A i \in 1..Len(seg) : IsDigit(seg[i])

C10_ParseContract ==
    call.op = "parse" =>
        LET v == IF startswith(call.version, "v")
                 THEN drop_first(call.version) ELSE call.version
            segs == split(v, ".")
        IN  /\ (\E i \in 1..Len(segs) : ~IsNum(segs[i])) => call.raised # "None"
            /\ call.raised = "None" =>
                   /\ \A i \in 1..3 : call.value[i] >= 0
                   /\ call.value[1] = digits_value(segs[1])
                   /\ call.value[2] = (IF Len(segs) > 1 THEN digits_value(segs[2]) ELSE 0)
                   /\ call.value[3] = (IF Len(segs) > 2 THEN digits_value(segs[3]) ELSE 0)

====
